---------------------------- MODULE Spec2Model ----------------------------
(***************************************************************************)
(* A model of sentryext.py, the Sphinx extension of sentry-doc-support.    *)
(*                                                                         *)
(* Strings are sequences of one-character strings, so that the regular     *)
(* expressions, expandtabs, slicing, split and join of the source are      *)
(* computed character by character.  Python's None is the string "None"    *)
(* wherever a value may be None, and a dict is a function whose domain is  *)
(* the set of its keys.                                                    *)
(***************************************************************************)
EXTENDS Integers, Sequences, FiniteSets, TLC

VARIABLES
    \* ---- activate() and preprocess_source ----
    environ,        \* os.environ: a function from variable names to strings
    globs,          \* the globals of the calling conf.py (a dict)
    source_lines,   \* source[0].splitlines()
    cfg,            \* what find_config returned for the document
    lineno,         \* the scan's line index (0-based, as in the source)
    result,         \* the lines collected so far
    origin,         \* for each line of result, the 1-based source line it was
                    \* copied from (0 for the u'' that closes a block)
    source_out,     \* source[0] after the callback, "None" until then
    pc_pre,         \* "conf" | "scan" | "done" | "error"
    \* ---- find_config ----
    fs_configs,     \* the directories that hold a sentry-doc-config.json
    fc_doc,         \* the path find_config was called with
    fc_path,        \* its local variable path
    fc_root,        \* its parameter root
    fc_result,      \* what it returned
    pc_fc,          \* "loop" | "returned"
    \* ---- is_referenced ----
    ir_docname,     \* its parameter docname
    ir_references,  \* its parameter references
    ir_seen,        \* its local variable seen
    ir_to_process,  \* its local variable to_process
    ir_popped,      \* how many times each document was taken from to_process
    ir_result,      \* "running", or the value returned as "True" | "False"
    \* ---- the build ----
    phase,          \* where the build is: "setup" | "read" | "write" |
                    \* "platforms" | "built" | "raised" | "finished"
    parallel,       \* whether documents are read by subprocesses (-j)
    has_rd,         \* hasattr(app.env, 'sentry_referenced_docs')
    rd,             \* app.env.sentry_referenced_docs
    status,         \* per document: "outdated" | "purged" | "forked" | "read" |
                    \* "absent" (removed in an earlier build)
    doc_toc,        \* per document, the toctree entries of the doctree read
                    \* last (none once the document is purged)
    sub,            \* per read subprocess, its copy of the environment
    attempted,      \* the documents write_doc was called for in this build
    written,        \* the documents the underlying write_doc was called for
    sitemap_links,  \* app.sitemap_links
    field_name_limit, \* builder.docsettings.field_name_limit
    log,            \* the messages of app.info in this build
    exception,      \* the exception the build ended with, or "None"
    sitemap,        \* the sitemap.xml written by this build, if any
    \* ---- finish(): the platform files ----
    config_files,   \* the sentry-doc-config.json files os.walk finds, in order
    pc_plat,        \* "idle" | "files" | "platform" | "wizard" | "done"
    pf_idx,         \* the config file __write_platforms is at (1-based)
    pf_todo,        \* the uids of that file __process_platform has not reached
    pf_rv,          \* rv of the running __process_platform
    wz,             \* the running __build_wizard_section: uid, next snippet, rv
    build_wizard_fragment,  \* the builder's flag
    initial_header_level,   \* docsettings.initial_header_level
    formatter_noclasses,    \* highlighter.formatter_args.get('noclasses')
    platforms,      \* platforms of __write_platforms
    out_files,      \* the files written under outdir, by path
    stderr,         \* what was printed to sys.stderr
    \* resolve_toctree
    toc_tocs,       \* env.tocs: the toctree entries of every document
    toc_start,      \* the document whose toctree node is resolved
    toc_stack,      \* the running calls of _entries_from_toctree, innermost last
    toc_warnings,   \* the circular references env.warn reported, in order
    toc_result,     \* the entries the outermost call returned
    pc_toc          \* "idle", "run" or "done"

preVars == <<environ, globs, source_lines, cfg, lineno, result, origin,
             source_out, pc_pre>>

fcVars == <<fs_configs, fc_doc, fc_path, fc_root, fc_result, pc_fc>>

irVars == <<ir_docname, ir_references, ir_seen, ir_to_process, ir_popped,
            ir_result>>

envVars == <<has_rd, rd, status, doc_toc, sub>>

outVars == <<attempted, written, sitemap_links, field_name_limit, log,
             exception, sitemap>>

platVars == <<config_files, pc_plat, pf_idx, pf_todo, pf_rv, wz,
              build_wizard_fragment, initial_header_level, formatter_noclasses,
              platforms, out_files, stderr>>

buildVars == <<phase, parallel, envVars, outVars, platVars>>

tocVars == <<toc_tocs, toc_start, toc_stack, toc_warnings, toc_result, pc_toc>>

vars == <<preVars, fcVars, irVars, buildVars, tocVars>>

\* what an action of one part leaves alone: the variables of the other parts
notPre == <<fcVars, irVars, buildVars, tocVars>>

notFc == <<preVars, irVars, buildVars, tocVars>>

notIr == <<preVars, fcVars, buildVars, tocVars>>

notBuild == <<preVars, fcVars, irVars, tocVars>>

notToc == <<preVars, fcVars, irVars, buildVars>>

\* None where a string is expected: a one-element sequence no string equals,
\* since every character of a string is a one-character string
None == <<"None">>

\* actual_indent = None
NoIndent == -1

-----------------------------------------------------------------------------
(* Bounds of the model                                                     *)

\* the longest document, in lines
MaxLines == 3

-----------------------------------------------------------------------------
(* Characters and strings                                                  *)

\* str.expandtabs() with its default tab size
TabSize == 8

\* \s of the re module, over the characters the model uses
IsSpace(c) == c \in {" ", "\t"}

\* [a-zA-Z0-9_] of _var_re, over the characters the model uses
IsNameChar(c) == c \in {"A", "B", "x", "y", "_"}

\* s[n:]
Drop(s, n) == IF n >= Len(s) THEN <<>> ELSE SubSeq(s, n + 1, Len(s))

\* s[:n]
Take(s, n) == IF n >= Len(s) THEN s ELSE SubSeq(s, 1, n)

\* s.startswith(p) at 0-based offset i
HasAt(s, i, p) ==
    /\ i + Len(p) <= Len(s)
    /\ \A k \in 1..Len(p) : s[i + k] = p[k]

\* the number of whitespace characters from 0-based offset i on
RECURSIVE SpaceRun(_, _)
SpaceRun(s, i) ==
    IF i < Len(s) /\ IsSpace(s[i + 1]) THEN 1 + SpaceRun(s, i + 1) ELSE 0

\* s.lstrip()
LStrip(s) == Drop(s, SpaceRun(s, 0))

\* s.rstrip()
RECURSIVE RStrip(_)
RStrip(s) ==
    IF s # <<>> /\ IsSpace(s[Len(s)]) THEN RStrip(Take(s, Len(s) - 1)) ELSE s

\* s.strip()
Strip(s) == RStrip(LStrip(s))

\* len(line.expandtabs()) - len(line.expandtabs().lstrip()): the column at
\* which the first non-blank character stands once tabs are expanded
RECURSIVE ExpandedCol(_, _, _)
ExpandedCol(s, i, col) ==
    IF i > Len(s) \/ ~IsSpace(s[i]) THEN col
    ELSE IF s[i] = "\t"
         THEN ExpandedCol(s, i + 1, col + (TabSize - (col % TabSize)))
         ELSE ExpandedCol(s, i + 1, col + 1)

ExpandedIndent(line) == ExpandedCol(line, 1, 0)

\* s.split(','): the pieces between commas, in order
RECURSIVE SplitOn(_, _, _)
SplitOn(s, sep, piece) ==
    IF s = <<>> THEN <<piece>>
    ELSE IF s[1] = sep THEN <<piece>> \o SplitOn(Tail(s), sep, <<>>)
    ELSE SplitOn(Tail(s), sep, Append(piece, s[1]))

\* u'\n'.join(lines)
RECURSIVE Join(_)
Join(lines) ==
    IF lines = <<>> THEN <<>>
    ELSE IF Len(lines) = 1 THEN lines[1]
    ELSE lines[1] \o <<"\n">> \o Join(Tail(lines))


-----------------------------------------------------------------------------
(* The regular expressions of the module                                   *)

SENTRY_EDITION ==
    <<"s","e","n","t","r","y",":","e","d","i","t","i","o","n",":",":">>

SENTRY_DOCEDITION ==
    <<"s","e","n","t","r","y",":","d","o","c","e","d","i","t","i","o","n",":",":">>

HASHES == <<"#", "#", "#">>

\* _edition_re with s[:k] as group 1: r'^(\s*)..\s+sentry:edition::\s*(.*?)$'.
\* The two dots match any two characters; \s+ has to reach the literal.
EditionMatchesAt(line, k) ==
    /\ k + 2 <= Len(line)
    /\ \A j \in 1..k : IsSpace(line[j])
    /\ SpaceRun(line, k + 2) >= 1
    /\ HasAt(line, k + 2 + SpaceRun(line, k + 2), SENTRY_EDITION)

\* _edition_re.match(line) is not None
EditionMatches(line) == \E k \in 0..Len(line) : EditionMatchesAt(line, k)

\* match.groups() of _edition_re: \s* is greedy, so group 1 is the longest
\* whitespace prefix that lets the rest match; group 2 is what follows the
\* literal and its trailing whitespace
EditionGroups(line) ==
    LET k == CHOOSE n \in 0..Len(line) :
                 /\ EditionMatchesAt(line, n)
                 /\ \A m \in 0..Len(line) : EditionMatchesAt(line, m) => m <= n
        after == k + 2 + SpaceRun(line, k + 2) + Len(SENTRY_EDITION)
    IN  [indent |-> Take(line, k), tags |-> LStrip(Drop(line, after))]

\* _docedition_re.match(line) is not None: r'^..\s+sentry:docedition::\s*(.*?)$'
DoceditionMatches(line) ==
    /\ 2 <= Len(line)
    /\ SpaceRun(line, 2) >= 1
    /\ HasAt(line, 2 + SpaceRun(line, 2), SENTRY_DOCEDITION)

\* the length of the run of [a-zA-Z0-9_] from 0-based offset i on
RECURSIVE NameRun(_, _)
NameRun(s, i) ==
    IF i < Len(s) /\ IsNameChar(s[i + 1]) THEN 1 + NameRun(s, i + 1) ELSE 0

\* _var_re matches at 0-based offset i: r'###([a-zA-Z0-9_]+)###'
VarMatchesAt(s, i) ==
    /\ HasAt(s, i, HASHES)
    /\ NameRun(s, i + 3) >= 1
    /\ HasAt(s, i + 3 + NameRun(s, i + 3), HASHES)

\* _var_re.search(s) is not None
HasVar(s) == \E i \in 0..Len(s) : VarMatchesAt(s, i)

\* set(x.strip() for x in tags.split(',') if x.strip())
TagSet(tags) ==
    LET pieces == SplitOn(tags, ",", <<>>)
    IN  {Strip(pieces[i]) : i \in 1..Len(pieces)} \ {<<>>}

-----------------------------------------------------------------------------
(* preprocess_source                                                       *)

\* _handle_match: (cfg.get('vars') or {}).get(key) or u''.
\* c.vars_kind is "absent", "null" or "dict"; c.vars is the dict.
HandleMatch(key, c) ==
    LET vars_ == IF c.vars_kind = "dict" THEN c.vars ELSE <<>>
    IN  IF key \in DOMAIN vars_ THEN vars_[key] ELSE <<>>

\* _var_re.sub(_handle_match, s) from 0-based offset i on
RECURSIVE ExpandFrom(_, _, _)
ExpandFrom(s, i, c) ==
    IF i >= Len(s) THEN <<>>
    ELSE IF VarMatchesAt(s, i)
         THEN LET n == NameRun(s, i + 3)
              IN  HandleMatch(SubSeq(s, i + 4, i + 3 + n), c)
                      \o ExpandFrom(s, i + 6 + n, c)
         ELSE <<s[i + 1]>> \o ExpandFrom(s, i + 1, c)

\* _expand_vars(line)
ExpandVars(line, c) == ExpandFrom(line, 0, c)

\* _expand_vars(line) raises: cfg is None and _handle_match calls cfg.get
ExpandVarsRaises(line, c) == HasVar(line) /\ ~c.found

\* the while loop of _find_block, from line index ln with rv and
\* actual_indent as collected so far
RECURSIVE FindBlockLoop(_, _, _, _, _)
FindBlockLoop(lines, block_indent, ln, rv, actual) ==
    IF ln >= Len(lines) THEN [rv |-> rv, lineno |-> ln, actual |-> actual]
    ELSE LET line == lines[ln + 1]
         IN  IF Strip(line) = <<>>
             THEN FindBlockLoop(lines, block_indent, ln + 1,
                                Append(rv, <<>>), actual)
             ELSE IF ExpandedIndent(line) > block_indent
                  THEN FindBlockLoop(lines, block_indent, ln + 1,
                           Append(rv, line),
                           IF actual = NoIndent \/ ExpandedIndent(line) < actual
                           THEN ExpandedIndent(line) ELSE actual)
                  ELSE [rv |-> rv, lineno |-> ln, actual |-> actual]

\* rv = [x[actual_indent:] for x in rv]
Dedent(rv, actual) == [i \in 1..Len(rv) |-> Drop(rv[i], actual)]

\* _find_block(indent, lineno): (rv, lineno)
FindBlock(lines, indent, ln) ==
    LET r == FindBlockLoop(lines, ExpandedIndent(indent), ln, <<>>, NoIndent)
        closed == IF r.rv # <<>> THEN Append(r.rv, <<>>) ELSE r.rv
    IN  [rv |-> IF r.rv # <<>> /\ r.actual # NoIndent /\ r.actual # 0
                THEN Dedent(closed, r.actual) ELSE closed,
         lineno |-> r.lineno]

\* app.env.config.sentry_doc_variant: the value conf.py defines, and the
\* default of add_config_value('sentry_doc_variant', None, 'env') otherwise
ConfigVariant ==
    IF "sentry_doc_variant" \in DOMAIN globs
    THEN globs["sentry_doc_variant"] ELSE None

\* the line the iteration looks at, after _expand_vars
CurrentLine == ExpandVars(source_lines[lineno + 1], cfg)

\* the source lines i..j, as entries of origin
RECURSIVE Range(_, _)
Range(i, j) == IF i > j THEN <<>> ELSE <<i>> \o Range(i + 1, j)

\* one iteration of the while loop: _expand_vars raises AttributeError
ScanRaise ==
    /\ pc_pre = "scan"
    /\ lineno < Len(source_lines)
    /\ ExpandVarsRaises(source_lines[lineno + 1], cfg)
    /\ pc_pre' = "error"
    /\ UNCHANGED <<environ, globs, source_lines, cfg, lineno, result, origin,
                   source_out>>
    /\ UNCHANGED notPre

\* one iteration: neither regular expression matches, the line is kept
ScanKeep ==
    /\ pc_pre = "scan"
    /\ lineno < Len(source_lines)
    /\ ~ExpandVarsRaises(source_lines[lineno + 1], cfg)
    /\ ~EditionMatches(CurrentLine)
    /\ ~DoceditionMatches(CurrentLine)
    /\ result' = Append(result, CurrentLine)
    /\ origin' = Append(origin, lineno + 1)
    /\ lineno' = lineno + 1
    /\ UNCHANGED <<environ, globs, source_lines, cfg, source_out, pc_pre>>
    /\ UNCHANGED notPre

\* one iteration: a sentry:docedition line is skipped
ScanDocedition ==
    /\ pc_pre = "scan"
    /\ lineno < Len(source_lines)
    /\ ~ExpandVarsRaises(source_lines[lineno + 1], cfg)
    /\ ~EditionMatches(CurrentLine)
    /\ DoceditionMatches(CurrentLine)
    /\ lineno' = lineno + 1
    /\ UNCHANGED <<environ, globs, source_lines, cfg, result, origin,
                   source_out, pc_pre>>
    /\ UNCHANGED notPre

\* one iteration: a sentry:edition line, whose block is kept or dropped
ScanEdition ==
    /\ pc_pre = "scan"
    /\ lineno < Len(source_lines)
    /\ ~ExpandVarsRaises(source_lines[lineno + 1], cfg)
    /\ EditionMatches(CurrentLine)
    /\ LET g == EditionGroups(CurrentLine)
           should_include == ConfigVariant \in TagSet(g.tags)
           b == FindBlock(source_lines, g.indent, lineno + 1)
       IN  /\ result' = IF should_include THEN result \o b.rv ELSE result
           /\ origin' = IF should_include /\ b.rv # <<>>
                        THEN origin \o Range(lineno + 2, b.lineno) \o <<0>>
                        ELSE origin
           /\ lineno' = b.lineno
    /\ UNCHANGED <<environ, globs, source_lines, cfg, source_out, pc_pre>>
    /\ UNCHANGED notPre

\* the loop ends: source[:] = [u'\n'.join(result)]
ScanEnd ==
    /\ pc_pre = "scan"
    /\ lineno >= Len(source_lines)
    /\ source_out' = Join(result)
    /\ pc_pre' = "done"
    /\ UNCHANGED <<environ, globs, source_lines, cfg, lineno, result, origin>>
    /\ UNCHANGED notPre

preprocess_source == ScanRaise \/ ScanKeep \/ ScanDocedition \/ ScanEdition \/ ScanEnd

-----------------------------------------------------------------------------
(* activate                                                                *)

SELF == <<"s", "e", "l", "f">>

HOSTED == <<"h", "o", "s", "t", "e", "d">>

\* list(globs.get(key) or ()): a missing key, None and an empty list give []
ListOrEmpty(g, key) ==
    IF key \in DOMAIN g /\ g[key] # None THEN g[key] ELSE <<>>

\* a lookup that ignores the environment and always yields the default
EnvVariantIgnoresEnviron(env) == SELF

\* os.environ.get('SENTRY_DOC_VARIANT', 'self')
EnvVariant(env) ==
    IF "SENTRY_DOC_VARIANT" \in DOMAIN env
    THEN env["SENTRY_DOC_VARIANT"] ELSE SELF

\* the caller's globals after activate()
Activated(g, env) ==
    [k \in DOMAIN g \cup {"sentry_doc_variant", "extensions",
                          "primary_domain", "exclude_patterns"} |->
        CASE k = "sentry_doc_variant" ->
                 IF k \in DOMAIN g THEN g[k] ELSE EnvVariant(env)
          [] k = "extensions" -> ListOrEmpty(g, k) \o <<"sentryext">>
          [] k = "primary_domain" -> <<"std">>
          [] k = "exclude_patterns" -> ListOrEmpty(g, k) \o <<"_sentryext">>
          [] OTHER -> g[k]]

\* conf.py calls activate(); the document is read afterwards
activate ==
    /\ pc_pre = "conf"
    /\ globs' = Activated(globs, environ)
    /\ pc_pre' = "scan"
    /\ UNCHANGED <<environ, source_lines, cfg, lineno, result, origin,
                   source_out>>
    /\ UNCHANGED notPre

-----------------------------------------------------------------------------
(* find_config                                                             *)

\* A path is the sequence of its components; <<>> is '/'.
\* os.path.dirname(path)
Dirname(path) == IF path = <<>> THEN <<>> ELSE Take(path, Len(path) - 1)

\* os.path.isfile(os.path.join(path, 'sentry-doc-config.json'))
HasConfigFile(path) == path \in fs_configs

\* a comparison that never holds: the search would look into root as well
SameFileNever(path, root) == FALSE

\* os.path.samefile(path, root), in a tree without links
SameFile(path, root) == path = root

\* json.load(f) of the file in directory path: the content is known by the
\* directory it was read from
LoadConfig(path) == [found |-> TRUE, dir |-> path]

\* the loop is left by a break: path or root is None, path is root, or
\* dirname no longer shortens path; the function returns None
FindConfigBreak ==
    /\ pc_fc = "loop"
    /\ \/ fc_path = None \/ fc_root = None
       \/ SameFile(fc_path, fc_root)
       \/ /\ ~HasConfigFile(fc_path)
          /\ Dirname(fc_path) = fc_path
    /\ fc_result' = [found |-> FALSE, dir |-> None]
    /\ pc_fc' = "returned"
    /\ UNCHANGED <<fs_configs, fc_doc, fc_path, fc_root>>
    /\ UNCHANGED notFc

\* the file is in path: return json.load(f)
FindConfigReturn ==
    /\ pc_fc = "loop"
    /\ fc_path # None /\ fc_root # None
    /\ ~SameFile(fc_path, fc_root)
    /\ HasConfigFile(fc_path)
    /\ fc_result' = LoadConfig(fc_path)
    /\ pc_fc' = "returned"
    /\ UNCHANGED <<fs_configs, fc_doc, fc_path, fc_root>>
    /\ UNCHANGED notFc

\* path = os.path.dirname(path)
FindConfigAscend ==
    /\ pc_fc = "loop"
    /\ fc_path # None /\ fc_root # None
    /\ ~SameFile(fc_path, fc_root)
    /\ ~HasConfigFile(fc_path)
    /\ Dirname(fc_path) # fc_path
    /\ fc_path' = Dirname(fc_path)
    /\ UNCHANGED <<fs_configs, fc_doc, fc_root, fc_result, pc_fc>>
    /\ UNCHANGED notFc

find_config == FindConfigBreak \/ FindConfigReturn \/ FindConfigAscend

-----------------------------------------------------------------------------
(* The reference map and is_referenced                                     *)

\* the documents of the project
Docs == {"index", "a", "b"}

\* the place of a document in sorted(docnames)
DocRank(d) == CASE d = "a" -> 1 [] d = "b" -> 2 [] d = "index" -> 3

\* {}
EmptyDict == [k \in {} |-> {}]

\* references.get(key) or ()
GetOrEmpty(d, key) == IF key \in DOMAIN d THEN d[key] ELSE {}

\* one call of is_referenced starts: docname == 'index' returns True at once
IsReferencedStart(docname, references) ==
    [seen |-> {docname},
     to_process |-> GetOrEmpty(references, docname),
     result |-> IF docname = "index" THEN "True" ELSE "running"]

\* a loop body that forgets the backlinks of next: only direct referrers are
\* ever processed
AfterPopWithoutBacklinks(references, seen, to_process, next) ==
    [seen |-> seen \cup {next}, to_process |-> to_process \ {next}]

\* a loop body that does not record next in seen
AfterPopForgetsSeen(references, seen, to_process, next) ==
    [seen |-> seen,
     to_process |-> (to_process \ {next}) \cup
                    {b \in GetOrEmpty(references, next) : b \notin seen}]

\* the body of the while loop once next has been popped: seen.add(next), and
\* every backlink of next that is not in seen is added to to_process
AfterPop(references, seen, to_process, next) ==
    [seen |-> seen \cup {next},
     to_process |-> (to_process \ {next}) \cup
                    {b \in GetOrEmpty(references, next) : b \notin seen \cup {next}}]

\* the while loop of is_referenced, run to its end; to_process.pop() takes
\* some element
RECURSIVE IsReferencedLoop(_, _, _)
IsReferencedLoop(references, seen, to_process) ==
    IF to_process = {} THEN FALSE
    ELSE IF "index" \in to_process THEN TRUE
    ELSE LET next == CHOOSE x \in to_process : TRUE
             st == AfterPop(references, seen, to_process, next)
         IN  IsReferencedLoop(references, st.seen, st.to_process)

\* a test that takes every document as referenced
IsReferencedAlways(docname, references) == TRUE

\* is_referenced(docname, references)
is_referenced(docname, references) ==
    \/ docname = "index"
    \/ IsReferencedLoop(references, {docname}, GetOrEmpty(references, docname))

\* the loop ends: to_process is empty (False) or holds 'index' (True)
IsReferencedReturn ==
    /\ ir_result = "running"
    /\ ir_to_process = {} \/ "index" \in ir_to_process
    /\ ir_result' = IF ir_to_process = {} THEN "False" ELSE "True"
    /\ UNCHANGED <<ir_docname, ir_references, ir_seen, ir_to_process, ir_popped>>
    /\ UNCHANGED notIr

\* one iteration: next = to_process.pop(), any element of the set
IsReferencedPop ==
    /\ ir_result = "running"
    /\ ir_to_process # {}
    /\ "index" \notin ir_to_process
    /\ \E next \in ir_to_process :
          LET st == AfterPop(ir_references, ir_seen, ir_to_process, next)
          IN  /\ ir_seen' = st.seen
              /\ ir_to_process' = st.to_process
              /\ ir_popped' = [ir_popped EXCEPT ![next] = @ + 1]
    /\ UNCHANGED <<ir_docname, ir_references, ir_result>>
    /\ UNCHANGED notIr

-----------------------------------------------------------------------------
(* Platform data: __process_platform and __process_platform_index          *)

EXTERNAL_DOCS_URL == "https://docs.getsentry.com/hosted/"

\* {} where platforms are collected
NoPlatforms == [k \in {} |-> <<>>]

\* no file written yet
NoFiles == [k \in {} |-> <<>>]

\* platform_data.get(key), with None for a missing key
FieldOrNone(platform_data, key) ==
    IF key \in DOMAIN platform_data.fields THEN platform_data.fields[key] ELSE None

\* c.upper() for the letters the model uses
Upper(c) ==
    CASE c = "a" -> "A" [] c = "b" -> "B" [] c = "c" -> "C" [] c = "d" -> "D"
      [] OTHER -> c

IsLetter(c) == c \in {"a", "b", "c", "d", "A", "B", "C", "D"}

\* uid.title(): the first letter of every run of letters in upper case
Title(uid) ==
    [i \in 1..Len(uid) |->
        IF i = 1 \/ ~IsLetter(uid[i - 1]) THEN Upper(uid[i]) ELSE uid[i]]

\* urljoin(EXTERNAL_DOCS_URL, posixpath.join(base_path, doc_link)), kept as
\* its three parts
DocLink(base_path, doc_link) == <<EXTERNAL_DOCS_URL, base_path, doc_link>>

\* the entry __process_platform stores under rv[uid]
PlatformEntry(uid, platform_data, data, base_path, body) ==
    [name |-> IF FieldOrNone(platform_data, "name") \notin {None, <<>>}
              THEN FieldOrNone(platform_data, "name") ELSE Title(uid),
     type |-> IF FieldOrNone(platform_data, "type") \notin {None, <<>>}
              THEN FieldOrNone(platform_data, "type") ELSE <<"generic">>,
     doc_link |-> IF FieldOrNone(platform_data, "doc_link") # None
                  THEN DocLink(base_path, FieldOrNone(platform_data, "doc_link"))
                  ELSE None,
     support_level |-> data.support_level,
     body |-> body]

\* the position of the first '.' of uid, 0 when it has none
FirstDot(uid) ==
    IF \E i \in 1..Len(uid) : uid[i] = "."
    THEN CHOOSE i \in 1..Len(uid) : uid[i] = "." /\ \A j \in 1..(i - 1) : uid[j] # "."
    ELSE 0

\* '.' in uid
HasDot(uid) == FirstDot(uid) # 0

\* base of base, local_name = uid.split('.', 1); uid itself without a dot
BaseOf(uid) == IF HasDot(uid) THEN Take(uid, FirstDot(uid) - 1) ELSE uid

\* local_name of base, local_name = uid.split('.', 1); '_self' without a dot
LocalOf(uid) == IF HasDot(uid) THEN Drop(uid, FirstDot(uid)) ELSE <<"_self">>

\* uid.replace('.', '/') + '.json'
DetailsPath(uid) ==
    [i \in 1..Len(uid) |-> IF uid[i] = "." THEN "/" ELSE uid[i]] \o <<".json">>

\* posixpath.join(path, b)
PathJoin(path, b) ==
    IF b # <<>> /\ b[1] = "/" THEN b
    ELSE IF path = <<>> \/ path[Len(path)] = "/" THEN path \o b
    ELSE path \o <<"/">> \o b

\* os.path.join(path, *parts)
RECURSIVE PathJoinAll(_, _)
PathJoinAll(path, parts) ==
    IF parts = <<>> THEN path
    ELSE PathJoinAll(PathJoin(path, parts[1]), Tail(parts))

\* a file name that keeps the dots of the uid
PlatformFileFlat(uid) == <<"_platforms", "/">> \o uid \o <<".json">>

\* os.path.join(self.outdir, '_platforms', *uid.split('.')) + '.json', as a
\* path below outdir
PlatformFile(uid) ==
    PathJoinAll(<<"_platforms">>, SplitOn(uid, ".", <<>>)) \o <<".json">>

\* os.path.join(self.outdir, '_platforms', '_index.json'), below outdir
IndexFile == <<"_platforms", "/", "_index.json">>

\* an index loop that skips nothing
MissingBaseNever(uid, pfs) == FALSE

\* a uid the index loop skips: its base is not a collected platform
MissingBase(uid, pfs) == HasDot(uid) /\ BaseOf(uid) \notin DOMAIN pfs

\* the entry the index stores under tree[base][local_name]
IndexEntry(uid, pfs) ==
    [details |-> DetailsPath(uid),
     name |-> pfs[uid].name,
     type |-> pfs[uid].type,
     doc_link |-> pfs[uid].doc_link]

\* __process_platform_index(platforms): tree[base][local_name] for every uid
\* that is not skipped
ProcessPlatformIndex(pfs) ==
    LET kept == {uid \in DOMAIN pfs : ~MissingBase(uid, pfs)}
    IN  [base \in {BaseOf(uid) : uid \in kept} |->
            [local \in {LocalOf(uid) : uid \in {u \in kept : BaseOf(u) = base}} |->
                IndexEntry(CHOOSE u \in kept : BaseOf(u) = base /\ LocalOf(u) = local,
                           pfs)]]

\* the 'Missing platform "%s" (referenced from %s)' lines of the index loop
MissingPlatformMessages(pfs) ==
    { <<"Missing platform", BaseOf(uid), uid>> :
          uid \in {u \in DOMAIN pfs : MissingBase(u, pfs)} }

\* the files __write_platforms writes: the index and one file per platform
PlatformFiles(pfs) ==
    [f \in {IndexFile} \cup {PlatformFile(uid) : uid \in DOMAIN pfs} |->
        IF \E uid \in DOMAIN pfs : PlatformFile(uid) = f
        THEN [platform |-> pfs[CHOOSE uid \in DOMAIN pfs : PlatformFile(uid) = f]]
        ELSE [platforms |-> ProcessPlatformIndex(pfs)]]

\* platforms.update(rv)
PlatformsUpdate(pfs, rv) ==
    [k \in DOMAIN pfs \cup DOMAIN rv |-> IF k \in DOMAIN rv THEN rv[k] ELSE pfs[k]]

\* no __build_wizard_section is running
NoWizard == [uid |-> <<>>, idx |-> 0, rv |-> <<>>]

\* the header level _build_node renders a fragment with
WizardHeaderLevel == 2

\* a flag that stays set when __build_wizard_section is left
WizardFlagStaysSet == [during |-> TRUE, after |-> TRUE]

\* self.build_wizard_fragment = True; try: ... finally:
\* self.build_wizard_fragment = False
WizardFlag == [during |-> TRUE, after |-> FALSE]

\* _build_node: the header level and the formatter arguments while the
\* fragment is rendered, and what the finally clause leaves
BuildNodeSettings(original_header_level, original_noclasses) ==
    [during |-> [header_level |-> WizardHeaderLevel, noclasses |-> TRUE],
     after |-> [header_level |-> original_header_level,
                noclasses |-> original_noclasses]]

\* the property add_permalinks of the builder
add_permalinks == ~build_wizard_fragment

\* get_target_uri(uri): the uri of the underlying builder, joined to
\* EXTERNAL_DOCS_URL while a wizard fragment is built
get_target_uri(uri) == [external |-> build_wizard_fragment, uri |-> uri]

\* get_relative_uri(from_, to): get_target_uri(to) while a wizard fragment is
\* built, the relative uri of the underlying builder otherwise
get_relative_uri(from_, to) ==
    IF build_wizard_fragment THEN get_target_uri(to)
    ELSE [external |-> FALSE, uri |-> to]

\* self.docwriter.parts['fragment'] of a snippet: what was rendered and the
\* settings of the builder while it was
Fragment(docname, flag, level, noclasses) ==
    [docname |-> docname, external_urls |-> flag, header_level |-> level,
     noclasses |-> noclasses]

-----------------------------------------------------------------------------
(* The callbacks of the build                                              *)

\* rd.setdefault(str(e[1]), set()).add(docname) for every entry of every
\* toctree node of the doctree
TrackReferences(refs, docname, entries) ==
    [k \in DOMAIN refs \cup entries |->
        IF k \in entries THEN GetOrEmpty(refs, k) \cup {docname} ELSE refs[k]]

\* a purge that leaves the map as it is
PurgedNothing(refs, docname) == refs

\* purge_info: discard docname from every value and pop the emptied keys
Purged(refs, docname) ==
    [k \in {x \in DOMAIN refs : refs[x] \ {docname} # {}} |-> refs[k] \ {docname}]

\* env.sentry_referenced_docs.update(other.sentry_referenced_docs)
DictUpdate(refs, other) ==
    [k \in DOMAIN refs \cup DOMAIN other |->
        IF k \in DOMAIN other THEN other[k] ELSE refs[k]]

\* the read subprocesses of a parallel build
Workers == {1, 2}

NoSub == [active |-> FALSE, todo |-> {}, has_rd |-> FALSE, rd |-> EmptyDict]

\* pagename + ".html"
SitemapLink(pagename) == <<pagename, ".html">>

\* the value write_doc sets docsettings.field_name_limit to
WriteFieldLimit == 120

\* builder-inited: create the map unless the (unpickled) environment has one
builder_inited ==
    /\ phase = "setup"
    /\ has_rd' = TRUE
    /\ rd' = IF has_rd THEN rd ELSE EmptyDict
    /\ phase' = "read"
    /\ UNCHANGED <<parallel, status, doc_toc, sub, outVars>>
    /\ UNCHANGED platVars
    /\ UNCHANGED notBuild

\* env-purge-doc for an added, changed or removed document
purge_info ==
    /\ phase = "read"
    /\ \E docname \in Docs :
          /\ status[docname] = "outdated"
          /\ rd' = IF has_rd THEN Purged(rd, docname) ELSE rd
          /\ status' = [status EXCEPT ![docname] = "purged"]
          /\ doc_toc' = [doc_toc EXCEPT ![docname] = {}]
    /\ UNCHANGED <<phase, parallel, has_rd, sub, outVars>>
    /\ UNCHANGED platVars
    /\ UNCHANGED notBuild

\* doctree-read in the main process: the document was purged and is read
\* with the toctree entries its source has now
track_references_and_orphan_doc ==
    /\ phase = "read"
    /\ ~parallel
    /\ \E docname \in Docs, entries \in SUBSET Docs :
          /\ status[docname] = "purged"
          /\ rd' = TrackReferences(rd, docname, entries)
          /\ status' = [status EXCEPT ![docname] = "read"]
          /\ doc_toc' = [doc_toc EXCEPT ![docname] = entries]
    /\ UNCHANGED <<phase, parallel, has_rd, sub, outVars>>
    /\ UNCHANGED platVars
    /\ UNCHANGED notBuild

\* a parallel read forks a subprocess for a chunk of the purged documents;
\* the child starts from a copy of the parent's environment
ForkReader ==
    /\ phase = "read"
    /\ parallel
    /\ \A d \in Docs : status[d] # "outdated"
    /\ \E w \in Workers, chunk \in SUBSET Docs :
          /\ ~sub[w].active
          /\ chunk # {}
          /\ \A d \in chunk : status[d] = "purged"
          /\ sub' = [sub EXCEPT ![w] = [active |-> TRUE, todo |-> chunk,
                                        has_rd |-> has_rd, rd |-> rd]]
          /\ status' = [d \in Docs |-> IF d \in chunk THEN "forked" ELSE status[d]]
    /\ UNCHANGED <<phase, parallel, has_rd, rd, doc_toc, outVars>>
    /\ UNCHANGED platVars
    /\ UNCHANGED notBuild

\* doctree-read in a subprocess: track_references_and_orphan_doc on the
\* child's environment
TrackReferencesInChild ==
    /\ phase = "read"
    /\ \E w \in Workers, docname \in Docs, entries \in SUBSET Docs :
          /\ sub[w].active
          /\ docname \in sub[w].todo
          /\ sub' = [sub EXCEPT ![w].todo = @ \ {docname},
                                ![w].rd = TrackReferences(@, docname, entries)]
          /\ status' = [status EXCEPT ![docname] = "read"]
          /\ doc_toc' = [doc_toc EXCEPT ![docname] = entries]
    /\ UNCHANGED <<phase, parallel, has_rd, rd, outVars>>
    /\ UNCHANGED platVars
    /\ UNCHANGED notBuild

\* env-merge-info: a subprocess has read its chunk and its environment is
\* merged into the parent's
merge_info ==
    /\ phase = "read"
    /\ \E w \in Workers :
          /\ sub[w].active
          /\ sub[w].todo = {}
          /\ IF ~sub[w].has_rd
             THEN UNCHANGED <<has_rd, rd>>
             ELSE /\ has_rd' = TRUE
                  /\ rd' = DictUpdate(IF has_rd THEN rd ELSE EmptyDict, sub[w].rd)
          /\ sub' = [sub EXCEPT ![w] = NoSub]
    /\ UNCHANGED <<phase, parallel, status, doc_toc, outVars>>
    /\ UNCHANGED platVars
    /\ UNCHANGED notBuild

\* the read phase is over: every outdated document was purged and every
\* subprocess was merged; a purged document that was not read again is gone
StartWriting ==
    /\ phase = "read"
    /\ \A d \in Docs : status[d] \in {"purged", "read", "absent"}
    /\ \A w \in Workers : ~sub[w].active
    /\ phase' = "write"
    /\ UNCHANGED <<parallel, envVars, outVars>>
    /\ UNCHANGED platVars
    /\ UNCHANGED notBuild

\* the builder writes the documents in sorted order: docname may be written
\* once no document after it has been
InWriteOrder(docname) == \A d \in attempted : DocRank(d) < DocRank(docname)

\* the try ... finally of write_doc: field_name_limit is WriteFieldLimit
\* while the body runs and original_field_limit once write_doc is left, by
\* return or by exception
FieldLimits(original_field_limit) ==
    [during |-> WriteFieldLimit, after |-> original_field_limit]

\* write_doc of a referenced document: the underlying write_doc runs, and
\* its html-page-context reaches collect_sitemap_link
WriteDocReferenced ==
    /\ phase = "write"
    /\ \E docname \in Docs :
          /\ status[docname] = "read"
          /\ InWriteOrder(docname)
          /\ is_referenced(docname, rd)
          /\ attempted' = attempted \cup {docname}
          /\ written' = written \cup {docname}
          /\ sitemap_links' = Append(sitemap_links, SitemapLink(docname))
    /\ field_name_limit' = FieldLimits(field_name_limit).after
    /\ UNCHANGED <<phase, parallel, envVars, log, exception, sitemap>>
    /\ UNCHANGED platVars
    /\ UNCHANGED notBuild

\* write_doc of a referenced document whose underlying write_doc raises: the
\* finally clause restores the limit and the exception ends the build
WriteDocRaises ==
    /\ phase = "write"
    /\ \E docname \in Docs :
          /\ status[docname] = "read"
          /\ InWriteOrder(docname)
          /\ is_referenced(docname, rd)
          /\ attempted' = attempted \cup {docname}
          /\ written' = written \cup {docname}
    /\ exception' = "Exception"
    /\ phase' = "raised"
    /\ field_name_limit' = FieldLimits(field_name_limit).after
    /\ UNCHANGED <<parallel, envVars, sitemap_links, log, sitemap>>
    /\ UNCHANGED platVars
    /\ UNCHANGED notBuild

\* write_doc of an unreferenced document: only the message is logged
WriteDocSkipped ==
    /\ phase = "write"
    /\ \E docname \in Docs :
          /\ status[docname] = "read"
          /\ InWriteOrder(docname)
          /\ ~is_referenced(docname, rd)
          /\ attempted' = attempted \cup {docname}
          /\ log' = log \cup {"skipping because unreferenced"}
    /\ field_name_limit' = FieldLimits(field_name_limit).after
    /\ UNCHANGED <<phase, parallel, envVars, written, sitemap_links,
                   exception, sitemap>>
    /\ UNCHANGED platVars
    /\ UNCHANGED notBuild

write_doc == WriteDocReferenced \/ WriteDocRaises \/ WriteDocSkipped

\* the pages finish() of the underlying builder renders besides the
\* documents; each passes through html-page-context
AdditionalPages == <<"genindex", "search">>

\* finish(): super().finish() renders the additional pages (or none, when
\* the configuration turns them off) and __write_platforms follows
finish ==
    /\ phase = "write"
    /\ \E pages \in {<<>>, AdditionalPages} :
          sitemap_links' = sitemap_links \o
                               [i \in 1..Len(pages) |-> SitemapLink(pages[i])]
    /\ phase' = "platforms"
    /\ pc_plat' = "files"
    /\ platforms' = NoPlatforms
    /\ pf_idx' = 1
    /\ UNCHANGED <<config_files, pf_todo, pf_rv, wz, build_wizard_fragment,
                   initial_header_level, formatter_noclasses, out_files, stderr>>
    /\ UNCHANGED <<parallel, envVars, attempted, written, field_name_limit, log,
                   exception, sitemap>>
    /\ UNCHANGED notBuild

\* base_url.rstrip('/')
RECURSIVE RStripSlash(_)
RStripSlash(s) ==
    IF s # <<>> /\ s[Len(s)] = "/" THEN RStripSlash(Take(s, Len(s) - 1)) ELSE s

\* '{}/{}'.format(base_url.rstrip('/'), link) for every collected link
SitemapUrls(base_url, links) ==
    [i \in 1..Len(links) |-> <<RStripSlash(base_url), "/", links[i]>>]

\* html_theme_options as conf.py may set it: without 'base_url', with an
\* empty one, with and without a trailing slash
ThemeOptions ==
    { [k \in {} |-> <<>>],
      [base_url |-> <<>>],
      [base_url |-> <<"h", "/">>],
      [base_url |-> <<"h">>] }

\* app.config['html_theme_options'].get('base_url', '')
BaseUrl(options) == IF "base_url" \in DOMAIN options THEN options["base_url"] ELSE <<>>

\* a build_sitemap that does not look at the exception
BuildSitemapDespiteException(options, exc, links) ==
    IF BaseUrl(options) = <<>> \/ links = <<>>
    THEN [written |-> FALSE, base_url |-> BaseUrl(options), urls |-> <<>>]
    ELSE [written |-> TRUE, base_url |-> BaseUrl(options),
          urls |-> SitemapUrls(BaseUrl(options), links)]

\* what build_sitemap(app, exception) leaves in sitemap: nothing when the
\* build raised, when there is no base URL or when no link was collected
BuildSitemap(options, exc, links) ==
    IF exc # "None" THEN [written |-> FALSE, base_url |-> BaseUrl(options), urls |-> <<>>]
    ELSE IF BaseUrl(options) = <<>>
         THEN [written |-> FALSE, base_url |-> BaseUrl(options), urls |-> <<>>]
    ELSE IF links = <<>>
         THEN [written |-> FALSE, base_url |-> BaseUrl(options), urls |-> <<>>]
    ELSE [written |-> TRUE, base_url |-> BaseUrl(options),
          urls |-> SitemapUrls(BaseUrl(options), links)]

\* build-finished: emitted with the exception the build raised, or None
build_sitemap ==
    /\ phase \in {"built", "raised"}
    /\ \E options \in ThemeOptions :
          sitemap' = BuildSitemap(options, exception, sitemap_links)
    /\ phase' = "finished"
    /\ UNCHANGED <<parallel, envVars, attempted, written, sitemap_links,
                   field_name_limit, log, exception>>
    /\ UNCHANGED platVars
    /\ UNCHANGED notBuild

\* something outside the extension raises while the pages are written
HostRaises ==
    /\ phase = "write"
    /\ exception' = "Exception"
    /\ phase' = "raised"
    /\ UNCHANGED <<parallel, envVars, attempted, written, sitemap_links,
                   field_name_limit, log, sitemap>>
    /\ UNCHANGED platVars
    /\ UNCHANGED notBuild

NoSitemap == [written |-> FALSE, base_url |-> <<>>, urls |-> <<>>]

\* the next sphinx-build: setup(app) of a new application on the pickled
\* environment, with some documents added, changed or removed since
NextBuild ==
    /\ phase = "finished"
    /\ \E changed \in SUBSET Docs, par \in BOOLEAN :
          /\ status' = [d \in Docs |-> IF d \in changed THEN "outdated"
                                       ELSE IF status[d] = "purged" THEN "absent"
                                       ELSE status[d]]
          /\ parallel' = par
    /\ phase' = "setup"
    /\ attempted' = {}
    /\ written' = {}
    /\ sitemap_links' = <<>>
    /\ log' = {}
    /\ exception' = "None"
    /\ sitemap' = NoSitemap
    /\ pc_plat' = "idle"
    /\ pf_idx' = 0
    /\ platforms' = NoPlatforms
    /\ out_files' = NoFiles
    /\ stderr' = {}
    /\ UNCHANGED <<config_files, pf_todo, pf_rv, wz, build_wizard_fragment,
                   initial_header_level, formatter_noclasses>>
    /\ UNCHANGED <<has_rd, rd, doc_toc, sub, field_name_limit>>
    /\ UNCHANGED notBuild

-----------------------------------------------------------------------------
(* resolve_toctree: _entries_from_toctree, call by call                    *)

\* the deepest nesting of calls the model follows
MaxDepth == 5

\* a test that finds no document in the chain of parents
InParentsNever(ref, parents) == FALSE

\* ref in parents
InParents(ref, parents) == \E k \in 1..Len(parents) : parents[k] = ref

\* a call of _entries_from_toctree(toctreenode, parents): refs, the entry the
\* for loop is at, parents and the entries collected so far
TocCall(refs, parents) ==
    [refs |-> refs, i |-> 1, parents |-> parents, entries |-> <<>>]

\* toc.children of an entry once its sub-toctrees were resolved: the title
\* of ref and below it the items the recursive call returned
TocItem(ref, items) == [ref |-> ref, sub |-> items]

\* the innermost running call
TocTop == toc_stack[Len(toc_stack)]

\* the stack with its innermost call replaced
TocWithTop(f) == [toc_stack EXCEPT ![Len(toc_stack)] = f]

\* tocentries = _entries_from_toctree(toctree, [])
TocStart ==
    /\ pc_toc = "idle"
    /\ toc_stack' = <<TocCall(toc_tocs[toc_start], <<>>)>>
    /\ pc_toc' = "run"
    /\ UNCHANGED <<toc_tocs, toc_start, toc_warnings, toc_result>>
    /\ UNCHANGED notToc

\* the entry is in parents: env.warn(... 'circular toctree references
\* detected' ...) and continue
TocCircular ==
    /\ pc_toc = "run"
    /\ TocTop.i <= Len(TocTop.refs)
    /\ LET ref == TocTop.refs[TocTop.i]
       IN  /\ InParents(ref, TocTop.parents)
           /\ toc_warnings' = Append(toc_warnings, <<ref, TocTop.parents>>)
           /\ toc_stack' = TocWithTop([TocTop EXCEPT !.i = @ + 1])
    /\ UNCHANGED <<toc_tocs, toc_start, toc_result, pc_toc>>
    /\ UNCHANGED notToc

\* the entry is not in parents: toc = env.tocs[ref].deepcopy() and the
\* recursive call for its sub-toctree, with [refdoc] + parents
TocDescend ==
    /\ pc_toc = "run"
    /\ TocTop.i <= Len(TocTop.refs)
    /\ Len(toc_stack) < MaxDepth
    /\ LET ref == TocTop.refs[TocTop.i]
       IN  /\ ~InParents(ref, TocTop.parents)
           /\ toc_stack' = Append(toc_stack,
                                  TocCall(toc_tocs[ref], <<ref>> \o TocTop.parents))
    /\ UNCHANGED <<toc_tocs, toc_start, toc_warnings, toc_result, pc_toc>>
    /\ UNCHANGED notToc

\* a recursive call returns its entries: they are inserted in place of the
\* sub-toctree, entries.extend(toc.children), and the caller's loop goes on
TocReturn ==
    /\ pc_toc = "run"
    /\ Len(toc_stack) > 1
    /\ TocTop.i > Len(TocTop.refs)
    /\ LET caller == toc_stack[Len(toc_stack) - 1]
           item == TocItem(caller.refs[caller.i], TocTop.entries)
       IN  toc_stack' = Append(SubSeq(toc_stack, 1, Len(toc_stack) - 2),
                               [caller EXCEPT !.i = @ + 1,
                                              !.entries = Append(@, item)])
    /\ UNCHANGED <<toc_tocs, toc_start, toc_warnings, toc_result, pc_toc>>
    /\ UNCHANGED notToc

\* the outermost call returns [bullet_list(entries)]
TocFinish ==
    /\ pc_toc = "run"
    /\ Len(toc_stack) = 1
    /\ TocTop.i > Len(TocTop.refs)
    /\ toc_result' = TocTop.entries
    /\ toc_stack' = <<>>
    /\ pc_toc' = "done"
    /\ UNCHANGED <<toc_tocs, toc_start, toc_warnings>>
    /\ UNCHANGED notToc

-----------------------------------------------------------------------------
(* finish(): __write_platforms, step by step                               *)

\* the config file __write_platforms is at
CurrentFile == config_files[pf_idx]

\* data.get('platforms', {})
PlatformsOf(data) == IF data.has_platforms THEN data.platforms ELSE NoPlatforms

\* the snippet the running __build_wizard_section is at
CurrentSnippet == PlatformsOf(CurrentFile)[wz.uid].wizard[wz.idx]

\* posixpath.join(base_path, snippet_path)
SnippetDocname(base_path, snippet) == PathJoin(base_path, snippet)

\* docname of the snippet the running __build_wizard_section is at
CurrentDocname == SnippetDocname(CurrentFile.base_path, CurrentSnippet)

\* the documents whose doctree file is not in the doctree directory:
\* env.get_and_resolve_doctree raises IOError for them
MissingDoctrees == { <<"m">>, <<"s", "/", "m">> }

\* the documents without any section: next(iter(doctree.traverse(section)))
\* raises StopIteration for them
NoSection == { <<"f">>, <<"s", "/", "f">> }

buildFrame == <<phase, parallel, envVars, attempted, written, sitemap_links,
                field_name_limit, log, sitemap>>

\* with open(filename) as f: data = json.load(f); __process_platform starts
OpenConfigFile ==
    /\ phase = "platforms" /\ pc_plat = "files"
    /\ pf_idx <= Len(config_files)
    /\ pf_todo' = DOMAIN PlatformsOf(CurrentFile)
    /\ pf_rv' = NoPlatforms
    /\ pc_plat' = "platform"
    /\ UNCHANGED <<config_files, pf_idx, wz, build_wizard_fragment,
                   initial_header_level, formatter_noclasses, platforms,
                   out_files, stderr>>
    /\ UNCHANGED <<buildFrame, exception>>
    /\ UNCHANGED notBuild

\* the next uid of iteritems(): __build_wizard_section is entered and sets
\* the flag
WizardEnter ==
    /\ phase = "platforms" /\ pc_plat = "platform"
    /\ \E uid \in pf_todo :
          wz' = [uid |-> uid, idx |-> 1, rv |-> <<>>]
    /\ build_wizard_fragment' = WizardFlag.during
    /\ pc_plat' = "wizard"
    /\ UNCHANGED <<config_files, pf_idx, pf_todo, pf_rv, initial_header_level,
                   formatter_noclasses, platforms, out_files, stderr>>
    /\ UNCHANGED <<buildFrame, exception>>
    /\ UNCHANGED notBuild

\* one snippet: its doctree is loaded and _build_node renders its section
\* with the header level and the formatter arguments changed, which the
\* finally clause of _build_node puts back
WizardSnippet ==
    /\ phase = "platforms" /\ pc_plat = "wizard"
    /\ wz.idx <= Len(PlatformsOf(CurrentFile)[wz.uid].wizard)
    /\ CurrentDocname \notin MissingDoctrees \cup NoSection
    /\ LET settings == BuildNodeSettings(initial_header_level, formatter_noclasses)
       IN  /\ wz' = [wz EXCEPT
                       !.idx = @ + 1,
                       !.rv = Append(@, Fragment(CurrentDocname,
                                                 get_target_uri(CurrentDocname).external,
                                                 settings.during.header_level,
                                                 settings.during.noclasses))]
           /\ initial_header_level' = settings.after.header_level
           /\ formatter_noclasses' = settings.after.noclasses
    /\ UNCHANGED <<config_files, pc_plat, pf_idx, pf_todo, pf_rv,
                   build_wizard_fragment, platforms, out_files, stderr>>
    /\ UNCHANGED <<buildFrame, exception>>
    /\ UNCHANGED notBuild

\* one snippet whose rendering fails: self.docwriter.write raises inside
\* _build_node, whose finally clause puts the settings back; the finally
\* clause of __build_wizard_section clears the flag and the exception leaves
\* __process_platform, __write_platforms and finish()
WizardRenderRaises ==
    /\ phase = "platforms" /\ pc_plat = "wizard"
    /\ wz.idx <= Len(PlatformsOf(CurrentFile)[wz.uid].wizard)
    /\ CurrentDocname \notin MissingDoctrees \cup NoSection
    /\ LET settings == BuildNodeSettings(initial_header_level, formatter_noclasses)
       IN  /\ initial_header_level' = settings.after.header_level
           /\ formatter_noclasses' = settings.after.noclasses
    /\ build_wizard_fragment' = WizardFlag.after
    /\ wz' = NoWizard
    /\ pc_plat' = "done"
    /\ exception' = "Exception"
    /\ phase' = "raised"
    /\ UNCHANGED <<config_files, pf_idx, pf_todo, pf_rv, platforms, out_files,
                   stderr>>
    /\ UNCHANGED <<parallel, envVars, attempted, written, sitemap_links,
                   field_name_limit, log, sitemap>>
    /\ UNCHANGED notBuild

\* one snippet whose doctree file is missing: get_and_resolve_doctree raises
\* IOError, the finally clause clears the flag, __process_platform prints
\* the failure and goes on with the next uid
WizardSnippetIOError ==
    /\ phase = "platforms" /\ pc_plat = "wizard"
    /\ wz.idx <= Len(PlatformsOf(CurrentFile)[wz.uid].wizard)
    /\ CurrentDocname \in MissingDoctrees
    /\ build_wizard_fragment' = WizardFlag.after
    /\ stderr' = stderr \cup {<<"Failed to build wizard", wz.uid>>}
    /\ pf_todo' = pf_todo \ {wz.uid}
    /\ wz' = NoWizard
    /\ pc_plat' = "platform"
    /\ UNCHANGED <<config_files, pf_idx, pf_rv, initial_header_level,
                   formatter_noclasses, platforms, out_files>>
    /\ UNCHANGED <<buildFrame, exception>>
    /\ UNCHANGED notBuild

\* one snippet whose document has no section: next(iter(...)) raises
\* StopIteration, the finally clause clears the flag, and the exception
\* leaves __process_platform, __write_platforms and finish()
WizardSnippetRaises ==
    /\ phase = "platforms" /\ pc_plat = "wizard"
    /\ wz.idx <= Len(PlatformsOf(CurrentFile)[wz.uid].wizard)
    /\ CurrentDocname \in NoSection
    /\ build_wizard_fragment' = WizardFlag.after
    /\ wz' = NoWizard
    /\ pc_plat' = "done"
    /\ exception' = "StopIteration"
    /\ phase' = "raised"
    /\ UNCHANGED <<config_files, pf_idx, pf_todo, pf_rv, initial_header_level,
                   formatter_noclasses, platforms, out_files, stderr>>
    /\ UNCHANGED <<parallel, envVars, attempted, written, sitemap_links,
                   field_name_limit, log, sitemap>>
    /\ UNCHANGED notBuild

\* every snippet is rendered: the finally clause clears the flag, the
\* fragments are joined and __process_platform stores the entry
WizardLeave ==
    /\ phase = "platforms" /\ pc_plat = "wizard"
    /\ wz.idx > Len(PlatformsOf(CurrentFile)[wz.uid].wizard)
    /\ build_wizard_fragment' = WizardFlag.after
    /\ pf_rv' = PlatformsUpdate(pf_rv,
                    (wz.uid :> PlatformEntry(wz.uid, PlatformsOf(CurrentFile)[wz.uid],
                                             CurrentFile, CurrentFile.base_path,
                                             wz.rv)))
    /\ pf_todo' = pf_todo \ {wz.uid}
    /\ wz' = NoWizard
    /\ pc_plat' = "platform"
    /\ UNCHANGED <<config_files, pf_idx, initial_header_level,
                   formatter_noclasses, platforms, out_files, stderr>>
    /\ UNCHANGED <<buildFrame, exception>>
    /\ UNCHANGED notBuild

\* __process_platform returns rv: platforms.update(rv), and the next file
ProcessPlatformReturn ==
    /\ phase = "platforms" /\ pc_plat = "platform"
    /\ pf_todo = {}
    /\ platforms' = PlatformsUpdate(platforms, pf_rv)
    /\ pf_rv' = NoPlatforms
    /\ pf_idx' = pf_idx + 1
    /\ pc_plat' = "files"
    /\ UNCHANGED <<config_files, pf_todo, wz, build_wizard_fragment,
                   initial_header_level, formatter_noclasses, out_files, stderr>>
    /\ UNCHANGED <<buildFrame, exception>>
    /\ UNCHANGED notBuild

\* every config file is processed: the index is built and written, then one
\* file per platform
WritePlatformFiles ==
    /\ phase = "platforms" /\ pc_plat = "files"
    /\ pf_idx > Len(config_files)
    /\ stderr' = stderr \cup MissingPlatformMessages(platforms)
    /\ out_files' = PlatformFiles(platforms)
    /\ pc_plat' = "done"
    /\ phase' = "built"
    /\ UNCHANGED <<config_files, pf_idx, pf_todo, pf_rv, wz,
                   build_wizard_fragment, initial_header_level,
                   formatter_noclasses, platforms>>
    /\ UNCHANGED <<parallel, envVars, attempted, written, sitemap_links,
                   field_name_limit, log, exception, sitemap>>
    /\ UNCHANGED notBuild

-----------------------------------------------------------------------------
(* Documents, configurations and environments the model reads              *)

DIRECTIVE == <<".", ".", " ">>

\* '.. sentry:edition:: self'
LineEditionSelf == DIRECTIVE \o SENTRY_EDITION \o <<" ">> \o SELF

\* '  .. sentry:edition:: hosted,x': indented, two tags
LineEditionHosted ==
    <<" ", " ">> \o DIRECTIVE \o SENTRY_EDITION \o <<" ">> \o HOSTED \o <<",", "x">>

\* '.. sentry:docedition:: self'
LineDocedition == DIRECTIVE \o SENTRY_DOCEDITION \o <<" ">> \o SELF

LinePool ==
    { LineEditionSelf,
      LineEditionHosted,
      LineDocedition,
      <<"x">>,                        \* text at the left margin
      <<>>,                           \* a blank line
      <<" ", " ", " ", " ", "y">>,    \* text indented by four spaces
      <<"\t", "y">>,                  \* text indented by a tab
      HASHES \o <<"A">> \o HASHES }   \* '###A###'

\* resolve_toctree is not running
TocIdle ==
    /\ toc_tocs = [d \in Docs |-> <<>>]
    /\ toc_start = "index"
    /\ toc_stack = <<>>
    /\ toc_warnings = <<>>
    /\ toc_result = <<>>
    /\ pc_toc = "idle"

\* is_referenced is not running
IrIdle ==
    /\ ir_docname = "index"
    /\ ir_references = EmptyDict
    /\ ir_seen = {}
    /\ ir_to_process = {}
    /\ ir_popped = [d \in Docs |-> 0]
    /\ ir_result = "True"

\* the value docsettings.field_name_limit has outside write_doc
DefaultFieldLimit == 30

\* no platform step is running and nothing was written
PlatIdle(files) ==
    /\ config_files = files
    /\ pc_plat = "idle"
    /\ pf_idx = 0
    /\ pf_todo = {}
    /\ pf_rv = NoPlatforms
    /\ wz = NoWizard
    /\ build_wizard_fragment = FALSE
    /\ initial_header_level = 1
    /\ formatter_noclasses = FALSE
    /\ platforms = NoPlatforms
    /\ out_files = NoFiles
    /\ stderr = {}

\* a new application after setup(app), in phase ph of its build
OutStart ==
    /\ attempted = {}
    /\ written = {}
    /\ sitemap_links = <<>>
    /\ field_name_limit = DefaultFieldLimit
    /\ log = {}
    /\ exception = "None"
    /\ sitemap = NoSitemap

\* no build is running
BuildIdle ==
    /\ phase = "finished"
    /\ parallel = FALSE
    /\ has_rd = FALSE
    /\ rd = EmptyDict
    /\ status = [d \in Docs |-> "absent"]
    /\ doc_toc = [d \in Docs |-> {}]
    /\ sub = [w \in Workers |-> NoSub]
    /\ OutStart
    /\ PlatIdle(<<>>)

\* find_config is not running
FcIdle ==
    /\ fs_configs = {}
    /\ fc_doc = None
    /\ fc_path = None
    /\ fc_root = None
    /\ fc_result = [found |-> FALSE, dir |-> None]
    /\ pc_fc = "returned"

\* every document of at most n lines over LinePool
RECURSIVE Documents(_)
Documents(n) ==
    IF n = 0 THEN {<<>>}
    ELSE LET shorter == Documents(n - 1)
         IN  shorter \cup {Append(d, l) : d \in {e \in shorter : Len(e) = n - 1},
                                          l \in LinePool}

\* what find_config can return: None, a config without 'vars', one whose
\* 'vars' is null, one that defines A
Configs ==
    { [found |-> FALSE, vars_kind |-> "absent", vars |-> <<>>],
      [found |-> TRUE, vars_kind |-> "absent", vars |-> <<>>],
      [found |-> TRUE, vars_kind |-> "null", vars |-> <<>>],
      [found |-> TRUE, vars_kind |-> "dict", vars |-> (<<"A">> :> <<"y">>)] }

NoEnviron == [k \in {} |-> <<>>]

EnvHosted == ("SENTRY_DOC_VARIANT" :> HOSTED)

NoGlobals == [k \in {} |-> <<>>]

\* the globals of conf.py before it calls activate()
ConfGlobals ==
    { g \in UNION {[d -> {None, <<>>, <<"a">>, SELF \o <<"2">>}] :
                     d \in SUBSET {"sentry_doc_variant", "extensions",
                                   "exclude_patterns"}} :
        /\ "sentry_doc_variant" \in DOMAIN g
              => g["sentry_doc_variant"] \in {None, SELF \o <<"2">>}
        /\ "extensions" \in DOMAIN g => g["extensions"] \in {None, <<>>, <<"a">>}
        /\ "exclude_patterns" \in DOMAIN g => g["exclude_patterns"] \in {<<"a">>} }

\* activate() and preprocess_source are not running
PreIdle ==
    /\ environ = NoEnviron
    /\ globs = NoGlobals
    /\ source_lines = <<>>
    /\ cfg = [found |-> FALSE, vars_kind |-> "absent", vars |-> <<>>]
    /\ lineno = 0
    /\ result = <<>>
    /\ origin = <<>>
    /\ source_out = None
    /\ pc_pre = "done"

\* the state before conf.py runs, for one document
PreStart(docs, cfgs, envs, gs) ==
    /\ source_lines \in docs
    /\ cfg \in cfgs
    /\ environ \in envs
    /\ globs \in gs
    /\ lineno = 0
    /\ result = <<>>
    /\ origin = <<>>
    /\ source_out = None
    /\ pc_pre = "conf"

\* documents of up to MaxLines lines, read after activate() with or without
\* SENTRY_DOC_VARIANT=hosted
InitPre ==
    /\ PreStart(Documents(MaxLines), Configs, {NoEnviron, EnvHosted}, {NoGlobals})
    /\ FcIdle /\ IrIdle /\ BuildIdle /\ TocIdle

NextPre == activate \/ preprocess_source

SpecPre == InitPre /\ [][NextPre]_vars

\* every conf.py and environment, each reading one of two documents
InitAct ==
    /\ FcIdle /\ IrIdle /\ BuildIdle /\ TocIdle
    /\ PreStart({<<LineEditionSelf, <<" ", "x">> >>,
              <<LineDocedition, LineEditionHosted,
                <<" ", " ", " ", "x">>, HASHES \o <<"A">> \o HASHES>>},
             {c \in Configs : c.vars_kind \in {"absent", "dict"}},
             {NoEnviron, EnvHosted, ("SENTRY_DOC_VARIANT" :> <<>>)},
             ConfGlobals)

SpecAct == InitAct /\ [][NextPre]_vars

-----------------------------------------------------------------------------
(* Claims about preprocess_source and activate                             *)

\* source line j (1-based) was copied to the output
Emitted(j) == \E k \in 1..Len(origin) : origin[k] = j

\* source line i is a sentry:edition directive
IsEditionLine(i) == EditionMatches(source_lines[i])

\* the tags of the directive on line i
TagsOf(i) == TagSet(EditionGroups(source_lines[i]).tags)

\* the block that follows the directive on line i: the following lines that
\* are blank or indented deeper than the directive, up to the first
\* non-blank line indented at or below it
BlockOf(i) ==
    { j \in (i + 1)..Len(source_lines) :
        \A m \in (i + 1)..j :
            \/ Strip(source_lines[m]) = <<>>
            \/ ExpandedIndent(source_lines[m]) > ExpandedIndent(source_lines[i]) }

\* C1: once preprocess_source has returned, for every source line that is a
\* sentry:edition directive the lines of its block are in the output iff the
\* configured variant is one of its tags, and the directive line is not in
\* the output.
C1_EditionBlockIffVariant ==
    pc_pre = "done" =>
        \A i \in 1..Len(source_lines) :
            IsEditionLine(i) =>
                /\ ~Emitted(i)
                /\ \A j \in BlockOf(i) : Emitted(j) <=> ConfigVariant \in TagsOf(i)

\* C6 (first half): preprocess_source never ends in an error for a document
\* whose config was not found or has no 'vars' section.
C6_AbsentConfigNeverAborts ==
    (~cfg.found \/ cfg.vars_kind = "absent") => pc_pre # "error"

\* C8: activate() leaves a sentry_doc_variant the configuration defines as it
\* is and otherwise sets it to SENTRY_DOC_VARIANT, or to 'self' when that is
\* unset; it appends 'sentryext' to extensions and '_sentryext' to
\* exclude_patterns, keeping every entry that was there, in order; and the
\* variant preprocess_source filters by is that value.
C8_ActivateSelectsVariant ==
    [][ (pc_pre = "conf" /\ pc_pre' = "scan") =>
          /\ ConfigVariant' =
                IF "sentry_doc_variant" \in DOMAIN globs
                THEN globs["sentry_doc_variant"]
                ELSE IF "SENTRY_DOC_VARIANT" \in DOMAIN environ
                     THEN environ["SENTRY_DOC_VARIANT"]
                     ELSE <<"s", "e", "l", "f">>
          /\ \A key \in {"extensions", "exclude_patterns"} :
                LET old == IF key \in DOMAIN globs /\ globs[key] # None
                           THEN globs[key] ELSE <<>>
                    new == globs'[key]
                IN  /\ Len(new) = Len(old) + 1
                    /\ \A n \in 1..Len(old) : new[n] = old[n]
                    /\ new[Len(new)] = IF key = "extensions"
                                       THEN "sentryext" ELSE "_sentryext"
      ]_vars

\* C8's case: a configuration that lists an extension and no variant was
\* activated with SENTRY_DOC_VARIANT=hosted, and a block is being filtered
C8_Witness ==
    /\ pc_pre = "scan"
    /\ lineno > 0
    /\ "SENTRY_DOC_VARIANT" \in DOMAIN environ
    /\ ConfigVariant = HOSTED
    /\ globs["extensions"] = <<"a", "sentryext">>
    /\ globs["exclude_patterns"] = <<"a", "_sentryext">>

-----------------------------------------------------------------------------
(* The source tree find_config walks                                       *)

\* the directories of the tree: /, /a, /a/b, /a/b/c, /a/y and /x
Directories ==
    { <<>>, <<"a">>, <<"a", "b">>, <<"a", "b", "c">>, <<"a", "y">>, <<"x">> }

\* env.doc2path(docname), doctree.attributes['source']: a document of one of
\* the directories
DocumentPaths == { Append(d, "doc.rst") : d \in Directories }

\* any document, any directory as the project root, any placement of
\* config files; None for either argument
InitFc ==
    /\ fs_configs \in SUBSET Directories
    /\ fc_doc \in DocumentPaths \cup {None}
    /\ fc_path = fc_doc
    /\ fc_root \in Directories \cup {None}
    /\ fc_result = [found |-> FALSE, dir |-> None]
    /\ pc_fc = "loop"
    /\ PreIdle /\ IrIdle /\ BuildIdle /\ TocIdle

NextFc == find_config

SpecFc == InitFc /\ [][NextFc]_vars

-----------------------------------------------------------------------------
(* Calls of is_referenced on every reference map over the documents        *)

\* every dict whose keys are documents and whose values are sets of documents
ReferenceMaps == UNION { [ks -> SUBSET Docs] : ks \in SUBSET Docs }

\* a call of is_referenced, on a document of the project or on one that is
\* in no toctree and has none
InitIr ==
    /\ ir_docname \in Docs \cup {"z"}
    /\ ir_references \in ReferenceMaps
    /\ ir_seen = IsReferencedStart(ir_docname, ir_references).seen
    /\ ir_to_process = IsReferencedStart(ir_docname, ir_references).to_process
    /\ ir_result = IsReferencedStart(ir_docname, ir_references).result
    /\ ir_popped = [d \in Docs |-> 0]
    /\ PreIdle /\ FcIdle /\ BuildIdle /\ TocIdle

NextIr == IsReferencedReturn \/ IsReferencedPop

SpecIr == InitIr /\ [][NextIr]_vars

\* the call runs on until it returns
SpecIrFair == SpecIr /\ WF_vars(NextIr)

-----------------------------------------------------------------------------
(* Builds: a clean build and the incremental builds after it               *)

\* a clean sphinx-build of the project, serial or parallel: a new
\* environment, every document to be read, no platform config file in the tree
InitBuild ==
    /\ phase = "setup"
    /\ parallel \in BOOLEAN
    /\ has_rd = FALSE
    /\ rd = EmptyDict
    /\ status = [d \in Docs |-> "outdated"]
    /\ doc_toc = [d \in Docs |-> {}]
    /\ sub = [w \in Workers |-> NoSub]
    /\ OutStart
    /\ PlatIdle(<<>>)
    /\ PreIdle /\ FcIdle /\ IrIdle /\ TocIdle

NextBuildStep ==
    \/ builder_inited
    \/ purge_info
    \/ track_references_and_orphan_doc
    \/ ForkReader
    \/ TrackReferencesInChild
    \/ merge_info
    \/ StartWriting
    \/ write_doc
    \/ HostRaises
    \/ finish
    \/ WritePlatformFiles
    \/ build_sitemap

SpecBuild == InitBuild /\ [][NextBuildStep]_vars

\* a clean serial build and the incremental serial builds that follow it on
\* the pickled environment
InitMap == InitBuild /\ ~parallel

\* the next build is a serial one again
NextSerialBuild == NextBuild /\ ~parallel'

NextMap ==
    \/ builder_inited
    \/ purge_info
    \/ track_references_and_orphan_doc
    \/ StartWriting
    \/ write_doc
    \/ HostRaises
    \/ finish
    \/ WritePlatformFiles
    \/ build_sitemap
    \/ NextSerialBuild

SpecMap == InitMap /\ [][NextMap]_vars

-----------------------------------------------------------------------------
(* finish() on every pair of platform config files                         *)

\* the uids of the platforms: 'a', 'b', 'a.b', and 'c.d' whose base 'c' is
\* no platform
UidPool == { <<"a">>, <<"b">>, <<"a", ".", "b">>, <<"c", ".", "d">> }

\* platform_data of a config file: a wizard of snippets, and the optional
\* name, type and doc_link; snippet 'g' exists, the doctree of 'm' is
\* missing, 'f' has no section
PlatformDataPool ==
    { [wizard |-> <<<<"g">>>>,
       fields |-> [name |-> <<"N">>, type |-> <<"T">>, doc_link |-> <<"l">>]],
      [wizard |-> <<<<"g">>, <<"m">>>>, fields |-> [k \in {} |-> <<>>]],
      [wizard |-> <<<<"f">>>>, fields |-> [k \in {} |-> <<>>]] }

\* the most platforms one config file defines
MaxPlatforms == 2

\* the 'platforms' sections a config file may have
PlatformSections ==
    UNION { [us -> PlatformDataPool] :
              us \in {u \in SUBSET UidPool : Cardinality(u) <= MaxPlatforms} }

\* the config files at base_path: without a 'platforms' section, or with one
ConfigFilesAt(base_path) ==
    { [base_path |-> base_path, has_platforms |-> FALSE,
       platforms |-> NoPlatforms, support_level |-> None] }
    \cup { [base_path |-> base_path, has_platforms |-> TRUE,
            platforms |-> ps, support_level |-> <<"production">>] :
              ps \in PlatformSections }

\* finish() has rendered the additional pages and __write_platforms starts,
\* with one config file at the root of the tree and a later one in 's'
InitPlat ==
    /\ phase = "platforms"
    /\ parallel = FALSE
    /\ has_rd = TRUE
    /\ rd = EmptyDict
    /\ status = [d \in Docs |-> "read"]
    /\ doc_toc = [d \in Docs |-> {}]
    /\ sub = [w \in Workers |-> NoSub]
    /\ attempted = {"index"}
    /\ written = {"index"}
    /\ sitemap_links = <<SitemapLink("index")>>
    /\ field_name_limit = DefaultFieldLimit
    /\ log = {}
    /\ exception = "None"
    /\ sitemap = NoSitemap
    /\ config_files \in { <<f1, f2>> : f1 \in ConfigFilesAt(<<>>),
                                       f2 \in ConfigFilesAt(<<"s">>) }
    /\ pc_plat = "files"
    /\ pf_idx = 1
    /\ pf_todo = {}
    /\ pf_rv = NoPlatforms
    /\ wz = NoWizard
    /\ build_wizard_fragment = FALSE
    /\ initial_header_level = 1
    /\ formatter_noclasses = FALSE
    /\ platforms = NoPlatforms
    /\ out_files = NoFiles
    /\ stderr = {}
    /\ PreIdle /\ FcIdle /\ IrIdle /\ TocIdle

NextPlat ==
    \/ OpenConfigFile
    \/ WizardEnter
    \/ WizardSnippet
    \/ WizardSnippetIOError
    \/ WizardSnippetRaises
    \/ WizardRenderRaises
    \/ WizardLeave
    \/ ProcessPlatformReturn
    \/ WritePlatformFiles
    \/ build_sitemap

SpecPlat == InitPlat /\ [][NextPlat]_vars

-----------------------------------------------------------------------------
(* The toctrees resolve_toctree walks                                      *)

\* the longest list of entries of a toctree
MaxEntries == 2

\* lists of up to n different documents
RECURSIVE TocLists(_)
TocLists(n) ==
    IF n = 0 THEN {<<>>}
    ELSE LET shorter == TocLists(n - 1)
         IN  shorter \cup { Append(l, d) : l \in shorter, d \in Docs }

\* every document has a toctree with some entries, or none; the toctrees
\* may list the document itself and each other
InitToc ==
    /\ toc_tocs \in [Docs -> {l \in TocLists(MaxEntries) :
                                \A j, k \in 1..Len(l) : l[j] = l[k] => j = k}]
    /\ toc_start \in Docs
    /\ toc_stack = <<>>
    /\ toc_warnings = <<>>
    /\ toc_result = <<>>
    /\ pc_toc = "idle"
    /\ PreIdle /\ FcIdle /\ IrIdle /\ BuildIdle

NextToc == TocStart \/ TocCircular \/ TocDescend \/ TocReturn \/ TocFinish

\* the call runs on until it returns
SpecToc == InitToc /\ [][NextToc]_vars /\ WF_vars(NextToc)

-----------------------------------------------------------------------------
(* Claims about find_config                                                *)

\* the directories above a document, the document's own directory first
AncestorDirs(doc) == { Take(doc, n) : n \in 0..(Len(doc) - 1) }

\* root is d or an ancestor of d
IsUnder(d, root) == Len(root) <= Len(d) /\ Take(d, Len(root)) = root

\* the nearest of the directories ds to the document: the longest path
Nearest(ds) == CHOOSE d \in ds : \A e \in ds : Len(e) <= Len(d)

\* what a search of the directories ds returns
SearchResult(ds) ==
    IF ds \cap fs_configs = {} THEN [found |-> FALSE, dir |-> None]
    ELSE [found |-> TRUE, dir |-> Nearest(ds \cap fs_configs)]

\* C2 as claimed: find_config returns the config of the nearest directory,
\* from the document's directory up to the project root, that has one, and
\* None when none of them has one or when path or root is None.
C2_NearestConfigUpToRoot ==
    pc_fc = "returned" =>
        fc_result =
            IF fc_doc = None \/ fc_root = None
            THEN [found |-> FALSE, dir |-> None]
            ELSE SearchResult({ d \in AncestorDirs(fc_doc) :
                                  IsUnder(fc_doc, fc_root) => IsUnder(d, fc_root) })

\* C2 amended: the project root itself is not searched. find_config returns
\* the config of the nearest directory that has one among the document's
\* directory and its ancestors strictly below the root (all its ancestors
\* when the document is not under the root), and None when none of them has
\* one or when path or root is None.
C2_NearestConfigBelowRoot ==
    pc_fc = "returned" =>
        fc_result =
            IF fc_doc = None \/ fc_root = None
            THEN [found |-> FALSE, dir |-> None]
            ELSE SearchResult({ d \in AncestorDirs(fc_doc) :
                                  IsUnder(fc_doc, fc_root) =>
                                      (IsUnder(d, fc_root) /\ d # fc_root) })

\* C2's case: the search passed a directory without a config and returned
\* the config of a directory above it, below a root that has one too
C2_Witness ==
    /\ pc_fc = "returned"
    /\ fc_result.found
    /\ fc_root # None
    /\ fc_root \in fs_configs
    /\ Len(fc_result.dir) > Len(fc_root)
    /\ Len(fc_result.dir) < Len(fc_doc) - 1

-----------------------------------------------------------------------------
(* Claims about the build                                                  *)

\* C3: once build-finished has run, sitemap.xml was written by this build
\* iff the build raised no exception, html_theme_options['base_url'] is not
\* empty and at least one page was collected; and it lists one URL per
\* collected page.  Before build-finished nothing is written.
C3_SitemapOnlyWithBaseUrl ==
    /\ phase # "finished" => ~sitemap.written
    /\ phase = "finished" =>
          /\ sitemap.written <=> /\ exception = "None"
                                 /\ sitemap.base_url # <<>>
                                 /\ sitemap_links # <<>>
          /\ sitemap.written => Len(sitemap.urls) = Len(sitemap_links)
          /\ ~sitemap.written => sitemap.urls = <<>>

\* C3's case: a build that wrote a referenced document and the additional
\* pages ended without exception and a sitemap with their URLs was written
C3_Witness ==
    /\ phase = "finished"
    /\ sitemap.written
    /\ sitemap.base_url = <<"h", "/">>
    /\ Len(sitemap.urls) = 3
    /\ sitemap.urls[1] = <<<<"h">>, "/", <<"index", ".html">>>>

\* C7: the callbacks run in lifecycle order (the map is created before any
\* document is read, no document is written while one is still to be read,
\* the platform files and the sitemap come after the last write_doc), hence
\* whenever write_doc may evaluate is_referenced the map exists and holds, for
\* every document read in this build, each of its toctree entries.
C7_MapCompleteWhenWriting ==
    /\ (\E d \in Docs : status[d] \in {"forked", "read"}) => has_rd
    /\ attempted # {} => \A d \in Docs : status[d] \in {"purged", "read"}
    /\ (out_files # NoFiles \/ sitemap.written) => phase \in {"built", "finished"}
    /\ phase = "write" =>
          /\ has_rd
          /\ \A d \in Docs :
                status[d] = "read" =>
                    \A t \in doc_toc[d] : t \in DOMAIN rd /\ d \in rd[t]

-----------------------------------------------------------------------------
(* Claims about is_referenced                                              *)

\* the documents reached from the set s by following the map any number of
\* times: s, the documents that reference one of s, and so on
RECURSIVE ReferrersClosure(_, _)
ReferrersClosure(references, s) ==
    LET more == s \cup UNION {GetOrEmpty(references, d) : d \in s}
    IN  IF more = s THEN s ELSE ReferrersClosure(references, more)

\* 'index' is reached from docname by following the map one or more times
IndexReachable(docname, references) ==
    "index" \in ReferrersClosure(references, GetOrEmpty(references, docname))

\* C10: is_referenced(docname, references) returns True iff docname is
\* 'index' or 'index' is reached from docname by following the map one or
\* more times, whatever elements to_process.pop() takes; it returns False
\* otherwise, also for a document the map does not have and for one that
\* lies only on cycles without 'index'.
C10_ReferencedIffIndexReachable ==
    LET expected == \/ ir_docname = "index"
                    \/ IndexReachable(ir_docname, ir_references)
    IN  /\ ir_result = "True" => expected
        /\ ir_result = "False" => ~expected
        /\ is_referenced(ir_docname, ir_references) <=> expected

\* C10's case: True was returned for a document that 'index' references
\* only through another document, after the loop popped that document
C10_Witness ==
    /\ ir_result = "True"
    /\ ir_docname = "b"
    /\ "index" \notin GetOrEmpty(ir_references, "b")
    /\ ir_popped["a"] = 1
    /\ ir_seen = {"a", "b"}

-----------------------------------------------------------------------------
(* Claims about the platform files                                         *)

\* the uids of config file i
UidsOf(i) == DOMAIN PlatformsOf(config_files[i])

\* the documents of the wizard snippets of uid in config file i
WizardDocs(i, uid) ==
    LET w == PlatformsOf(config_files[i])[uid].wizard
    IN  { SnippetDocname(config_files[i].base_path, w[n]) : n \in 1..Len(w) }

\* a snippet file of the wizard of uid in config file i is missing
SnippetMissing(i, uid) == WizardDocs(i, uid) \cap MissingDoctrees # {}

\* C4: once the platform step is over after a wizard snippet file was
\* found missing, every such failure was printed, the platform has no entry
\* unless another config file defines it too, no error has left finish(),
\* and every platform of any config file whose snippet files all exist has
\* its entry and its output file. (A failure of the docutils writer itself
\* is set aside.)
C4_MissingSnippetSkipped ==
    (/\ pc_plat = "done"
     /\ exception # "Exception"
     /\ \E i \in 1..Len(config_files) : \E uid \in UidsOf(i) :
           SnippetMissing(i, uid) /\ <<"Failed to build wizard", uid>> \in stderr)
    =>
    /\ exception = "None"
    /\ \A i \in 1..Len(config_files) : \A uid \in UidsOf(i) :
          IF SnippetMissing(i, uid)
          THEN /\ <<"Failed to build wizard", uid>> \in stderr
               /\ uid \in DOMAIN platforms =>
                     \E j \in 1..Len(config_files) :
                         j # i /\ uid \in UidsOf(j) /\ ~SnippetMissing(j, uid)
          ELSE /\ uid \in DOMAIN platforms
               /\ PlatformFile(uid) \in DOMAIN out_files

\* the pieces of uid between its dots
UidParts(uid) == SplitOn(uid, ".", <<>>)

\* the index written to _platforms/_index.json
WrittenIndex == out_files[IndexFile].platforms

\* the uids the collected platforms say the index holds an entry for
IndexedUids ==
    { uid \in DOMAIN platforms :
          Len(UidParts(uid)) = 1 \/ UidParts(uid)[1] \in DOMAIN platforms }

\* C5: in the index that was written, a uid 'base.local' whose base is no
\* collected platform has no entry and was printed as missing; every other
\* platform is under tree[base][local], or under tree[uid]['_self'] when
\* the uid has no dot; and the index holds nothing else.
C5_MissingBaseSkipped ==
    phase = "built" =>
        /\ \A uid \in DOMAIN platforms \ IndexedUids :
              /\ <<"Missing platform", UidParts(uid)[1], uid>> \in stderr
              /\ \A base \in DOMAIN WrittenIndex : \A local \in DOMAIN WrittenIndex[base] :
                    WrittenIndex[base][local].details # DetailsPath(uid)
        /\ \A uid \in IndexedUids :
              LET base == UidParts(uid)[1]
                  local == IF Len(UidParts(uid)) = 1 THEN <<"_self">>
                           ELSE SubSeq(uid, Len(base) + 2, Len(uid))
              IN  /\ base \in DOMAIN WrittenIndex
                  /\ local \in DOMAIN WrittenIndex[base]
                  /\ WrittenIndex[base][local].details = DetailsPath(uid)
                  /\ WrittenIndex[base][local].name = platforms[uid].name
        /\ Cardinality({<<base, local>> \in UNION {{b} \X DOMAIN WrittenIndex[b] :
                                                      b \in DOMAIN WrittenIndex} : TRUE})
              = Cardinality(IndexedUids)

\* C5's case: 'c.d' was collected without 'c' and skipped, while 'a' and
\* 'a.b' are in the index
C5_Witness ==
    /\ phase = "built"
    /\ <<"Missing platform", <<"c">>, <<"c", ".", "d">>>> \in stderr
    /\ <<"a">> \in DOMAIN WrittenIndex
    /\ DOMAIN WrittenIndex[<<"a">>] = {<<"_self">>, <<"b">>}

\* '_platforms/<uid with each . replaced by />.json'
ClaimedFile(uid) ==
    <<"_platforms", "/">> \o [i \in 1..Len(uid) |-> IF uid[i] = "." THEN "/" ELSE uid[i]]
        \o <<".json">>

\* C9: after the platform step the files under outdir are the index and one
\* file '_platforms/<uid with each . replaced by />.json' per collected
\* platform, each holding that platform's data, and every entry of the
\* index names one of these per-platform files in 'details'.
C9_OneFilePerPlatform ==
    phase = "built" =>
        /\ DOMAIN out_files = {IndexFile} \cup {ClaimedFile(uid) : uid \in DOMAIN platforms}
        /\ Cardinality(DOMAIN out_files) = Cardinality(DOMAIN platforms) + 1
        /\ \A uid \in DOMAIN platforms :
              out_files[ClaimedFile(uid)] = [platform |-> platforms[uid]]
        /\ \A base \in DOMAIN WrittenIndex : \A local \in DOMAIN WrittenIndex[base] :
              \E uid \in DOMAIN platforms :
                  <<"_platforms", "/">> \o WrittenIndex[base][local].details
                      = PlatformFile(uid)

\* C9's case: three platforms from two config files were written, one of
\* them with a dotted uid, and one of them is not in the index
C9_Witness ==
    /\ phase = "built"
    /\ Cardinality(DOMAIN platforms) = 3
    /\ <<"_platforms", "/", "a", "/", "b", ".json">> \in DOMAIN out_files
    /\ <<"_platforms", "/", "c", "/", "d", ".json">> \in DOMAIN out_files
    /\ <<"c">> \notin DOMAIN WrittenIndex

-----------------------------------------------------------------------------
(* Claims about write_doc                                                  *)

\* C11: every write_doc call invokes the underlying write_doc iff the
\* document is 'index' or 'index' is reached from it through the map; for
\* any other document nothing is written, no sitemap link is collected and
\* only 'skipping because unreferenced' is logged; and when write_doc is
\* left, by return or by exception, field_name_limit is what it was before.
C11_WriteDocIffReferenced ==
    [][ attempted' # attempted =>
          \E docname \in Docs :
              LET referenced == \/ docname = "index"
                                \/ IndexReachable(docname, rd)
              IN  /\ attempted' = attempted \cup {docname}
                  /\ docname \notin attempted
                  /\ docname \in written' <=> referenced
                  /\ written' \ {docname} = written
                  /\ ~referenced =>
                        /\ sitemap_links' = sitemap_links
                        /\ log' = log \cup {"skipping because unreferenced"}
                        /\ exception' = exception
                  /\ referenced =>
                        /\ log' = log
                        /\ \/ sitemap_links' = Append(sitemap_links, <<docname, ".html">>)
                           \/ exception' # "None" /\ sitemap_links' = sitemap_links
                  /\ field_name_limit' = field_name_limit
      ]_vars

\* C11's case: in one build a referenced document was written and an
\* unreferenced one was skipped, and the limit is the one from before
C11_Witness ==
    /\ phase = "write"
    /\ "a" \in written
    /\ "b" \in attempted \ written
    /\ sitemap_links = <<<<"a", ".html">>>>
    /\ "skipping because unreferenced" \in log
    /\ field_name_limit = DefaultFieldLimit

-----------------------------------------------------------------------------
(* Claims about resolve_toctree                                            *)

\* the documents of a chain of parents
ChainDocs(parents) == { parents[k] : k \in 1..Len(parents) }

\* what resolving the entries refs below the chain parents has to give: an
\* entry that is in the chain gives nothing, any other entry gives its item
\* with its own entries resolved below the chain extended by it
RECURSIVE Resolved(_, _)
Resolved(refs, parents) ==
    IF refs = <<>> THEN <<>>
    ELSE LET ref == Head(refs)
             first == IF ref \in ChainDocs(parents) THEN <<>>
                      ELSE <<[ref |-> ref,
                              sub |-> Resolved(toc_tocs[ref], <<ref>> \o parents)]>>
         IN  first \o Resolved(Tail(refs), parents)

\* the number of entries ignored as circular while refs is resolved
RECURSIVE CircularEntries(_, _)
CircularEntries(refs, parents) ==
    IF refs = <<>> THEN 0
    ELSE LET ref == Head(refs)
             first == IF ref \in ChainDocs(parents) THEN 1
                      ELSE CircularEntries(toc_tocs[ref], <<ref>> \o parents)
         IN  first + CircularEntries(Tail(refs), parents)

\* C12: resolve_toctree returns for every assignment of toctrees to the
\* documents, cycles and self-references included; no chain of parents
\* holds a document twice, so the calls nest no deeper than there are
\* documents; every warning names an entry that is in its chain of parents;
\* and the result holds every entry that is not in its chain, resolved, and
\* nothing for the entries that are, one warning each.
C12_ResolveToctreeTerminates ==
    /\ [](/\ Len(toc_stack) <= Cardinality(Docs) + 1
          /\ \A n \in 1..Len(toc_stack) :
                LET parents == toc_stack[n].parents
                IN  /\ Len(parents) = n - 1
                    /\ Cardinality(ChainDocs(parents)) = Len(parents)
          /\ \A n \in 1..Len(toc_warnings) :
                toc_warnings[n][1] \in ChainDocs(toc_warnings[n][2])
          /\ pc_toc = "done" =>
                /\ toc_result = Resolved(toc_tocs[toc_start], <<>>)
                /\ Len(toc_warnings) = CircularEntries(toc_tocs[toc_start], <<>>))
    /\ <>(pc_toc = "done")

\* C12's case: the toctree of 'a' lists 'a' itself and then 'b'; the entry
\* 'a' below 'a' was ignored with a warning and 'b' after it was resolved
C12_Witness ==
    /\ pc_toc = "done"
    /\ toc_start = "a"
    /\ toc_tocs["a"] = <<"a", "b">>
    /\ toc_tocs["b"] = <<>>
    /\ toc_warnings = << <<"a", <<"a">>>> >>
    /\ toc_result = << [ref |-> "a", sub |-> <<[ref |-> "b", sub |-> <<>>]>>],
                       [ref |-> "b", sub |-> <<>>] >>

-----------------------------------------------------------------------------
(* Claims about what preprocess_source leaves in place                     *)

\* source line j is in the block of an edition directive before it
InEditionBlock(j) == \E i \in 1..(j - 1) : IsEditionLine(i) /\ j \in BlockOf(i)

\* source line j is a sentry:docedition line that no block holds
IsDocedition(j) == DoceditionMatches(source_lines[j]) /\ ~InEditionBlock(j)

\* source line j is outside the edition blocks: no edition directive, in no
\* block, no top-level sentry:docedition line
OutsideBlocks(j) ==
    /\ ~IsEditionLine(j)
    /\ ~InEditionBlock(j)
    /\ ~DoceditionMatches(source_lines[j])

\* the places of the output that source line j was copied to
PlacesOf(j) == { k \in 1..Len(origin) : origin[k] = j }

\* once preprocess_source has returned: every line outside the blocks is in
\* the output exactly once, with its variables expanded, in the order of
\* the source; a sentry:docedition line is not in the output
FrameKept ==
    /\ \A j \in 1..Len(source_lines) :
          OutsideBlocks(j) =>
              /\ Cardinality(PlacesOf(j)) = 1
              /\ \A k \in PlacesOf(j) : result[k] = ExpandVars(source_lines[j], cfg)
    /\ \A j1, j2 \in 1..Len(source_lines) :
          (OutsideBlocks(j1) /\ OutsideBlocks(j2) /\ j1 < j2) =>
              \A k1 \in PlacesOf(j1), k2 \in PlacesOf(j2) : k1 < k2
    /\ \A j \in 1..Len(source_lines) : IsDocedition(j) => PlacesOf(j) = {}

\* every iteration of the scan that does not leave the loop moves the line
\* index forward
LineIndexIncreases ==
    [][ (pc_pre = "scan" /\ pc_pre' = "scan") => lineno' > lineno ]_vars

\* preprocess_source, where it returns, has kept the lines outside the blocks
FrameKeptWhenDone == pc_pre = "done" => FrameKept

\* C13: for every input the scan ends by returning, having passed every
\* line; then every source line that is no edition directive, in no edition
\* block and no top-level sentry:docedition line is in the output exactly
\* once, expanded, in the original order, and a sentry:docedition line is
\* dropped while the lines after it are kept.
C13_LinesOutsideBlocksKept ==
    /\ pc_pre # "error"
    /\ pc_pre = "done" => (lineno = Len(source_lines) /\ FrameKept)

-----------------------------------------------------------------------------
(* Claims about the reference map                                          *)

\* the map a sequential read of the documents read so far gives: for every
\* target, the documents whose toctree lists it
SequentialMap ==
    LET referrers(t) == { d \in Docs : status[d] = "read" /\ t \in doc_toc[d] }
    IN  [t \in { x \in Docs : referrers(x) # {} } |-> referrers(t)]

\* C14: every merge_info leaves, for every target, the referrers the
\* environment had and the referrers the merged one had; hence when the
\* read phase is over the map, and every answer of is_referenced, is that
\* of a sequential read.
C14_MergeLosesNoReference ==
    /\ [][ \A w \in Workers :
              (sub[w].active /\ ~sub'[w].active) =>
                  \A t \in Docs :
                      GetOrEmpty(rd', t) =
                          GetOrEmpty(rd, t) \cup GetOrEmpty(sub[w].rd, t) ]_vars
    /\ [](phase = "write" =>
              /\ rd = SequentialMap
              /\ \A d \in Docs :
                    is_referenced(d, rd) <=> is_referenced(d, SequentialMap))


\* the map the most recently read doctrees give: for every target, the
\* documents whose last read doctree, if it was not purged since, lists it
LatestMap ==
    LET referrers(t) == { d \in Docs : t \in doc_toc[d] }
    IN  [t \in { x \in Docs : referrers(x) # {} } |-> referrers(t)]

-----------------------------------------------------------------------------
(* Claims about the termination of is_referenced                           *)

\* C16: every call of is_referenced returns, whatever the document and the
\* map, cycles and self-references included: no document is popped from
\* to_process twice, the popped documents are in seen, and documents that
\* are in seen are added to to_process no more.
C16_IsReferencedTerminates ==
    /\ [](/\ \A d \in Docs : ir_popped[d] <= 1
          /\ \A d \in Docs : ir_popped[d] = 1 => d \in ir_seen
          /\ \A d \in ir_to_process : ir_popped[d] = 0)
    /\ <>(ir_result \in {"True", "False"})

\* C16's case: 'a' and 'b' reference themselves and each other, 'index'
\* references nothing; both were popped once and False was returned
C16_Witness ==
    /\ ir_result = "False"
    /\ ir_docname = "a"
    /\ GetOrEmpty(ir_references, "a") = {"a", "b"}
    /\ GetOrEmpty(ir_references, "b") = {"a", "b"}
    /\ ir_popped = [index |-> 0, a |-> 1, b |-> 1]
    /\ ir_to_process = {}


-----------------------------------------------------------------------------
(* a whole serial build: the pages are written, then finish() builds the   *)
(* wizard fragments of the platforms                                        *)

\* the config files that define one platform
OnePlatformFiles(base_path) ==
    { f \in ConfigFilesAt(base_path) :
        f.has_platforms /\ \E uid \in UidPool : DOMAIN f.platforms = {uid} }

\* a new application whose source tree has one config file, of one platform
InitWizard ==
    /\ phase = "setup"
    /\ parallel = FALSE
    /\ has_rd = FALSE
    /\ rd = EmptyDict
    /\ status = [d \in Docs |-> "outdated"]
    /\ doc_toc = [d \in Docs |-> {}]
    /\ sub = [w \in Workers |-> NoSub]
    /\ OutStart
    /\ \E f \in OnePlatformFiles(<<>>) : PlatIdle(<<f>>)
    /\ PreIdle /\ FcIdle /\ IrIdle /\ TocIdle

NextWizard ==
    \/ builder_inited
    \/ purge_info
    \/ track_references_and_orphan_doc
    \/ StartWriting
    \/ write_doc
    \/ HostRaises
    \/ finish
    \/ OpenConfigFile
    \/ WizardEnter
    \/ WizardSnippet
    \/ WizardSnippetIOError
    \/ WizardSnippetRaises
    \/ WizardRenderRaises
    \/ WizardLeave
    \/ ProcessPlatformReturn
    \/ WritePlatformFiles
    \/ build_sitemap

SpecWizard == InitWizard /\ [][NextWizard]_vars

-----------------------------------------------------------------------------
(* C17                                                                      *)

\* every fragment rendered so far was rendered for the wizard: external
\* uris, header level two, inline styles
FragmentsForWizard ==
    /\ \A i \in 1..Len(wz.rv) :
          /\ wz.rv[i].external_urls
          /\ wz.rv[i].header_level = WizardHeaderLevel
          /\ wz.rv[i].noclasses

\* the builder is outside __build_wizard_section with its settings as they
\* were before
WizardSettingsRestored ==
    /\ build_wizard_fragment = (pc_plat = "wizard")
    /\ initial_header_level = 1
    /\ ~formatter_noclasses

\* write_doc runs with permalinks and relative uris
WriteDocSeesNormalBuilder ==
    attempted' # attempted =>
        /\ add_permalinks
        /\ \A d \in Docs :
              /\ ~get_target_uri(d).external
              /\ \A t \in Docs : ~get_relative_uri(d, t).external

\* C17: build_wizard_fragment is True exactly while __build_wizard_section is
\* executing, also after a snippet failed with an exception; the header level
\* and the formatter arguments have their previous values after each fragment
\* is rendered or fails; every write_doc of a page sees add_permalinks = True
\* and relative uris
C17_WizardFlagScoped ==
    /\ [](WizardSettingsRestored /\ FragmentsForWizard)
    /\ [][WriteDocSeesNormalBuilder]_vars

\* a build that wrote its pages, rendered the fragment of snippet 'g' and
\* failed on the missing snippet 'm' after it: the flag is cleared and the
\* settings are back
C17_Witness ==
    /\ written # {}
    /\ \E uid \in UidPool : <<"Failed to build wizard", uid>> \in stderr
    /\ pc_plat = "platform"
    /\ ~build_wizard_fragment
    /\ initial_header_level = 1
    /\ ~formatter_noclasses

=============================================================================
